---- MODULE Spec2Model ----
(***************************************************************************)
(* Retrieval pipeline of Neuroplex-Agent.                                  *)
(*                                                                         *)
(*   SpecQuery  QueryEngine.advanced_query                                 *)
(*              (ai_engine/knowledge_database/query_engine.py)             *)
(*   Spec       Retriever.__call__ with /config and /restart               *)
(*              (ai_engine/core/retriever.py, backend/routers/base.py)     *)
(*   SpecConcurrent                                                        *)
(*              Spec with /config and /restart served while a retrieval    *)
(*              is under way                                               *)
(*   SpecChat   chat_post.generate_response (backend/routers/chat.py)      *)
(*                                                                         *)
(* Scores (distance, rerank_score, thresholds) are floats in the source;   *)
(* here they are integers counting tenths, so 0.5 is 5.                    *)
(***************************************************************************)
EXTENDS Integers, Sequences, FiniteSets, TLC

VARIABLES
    \* ---- agent_config and the long-lived objects
    enable_rerank,      \* agent_config.enable_rerank
    reranker,           \* embedding_manager.reranker is not None
    enable_kb,          \* agent_config.enable_kb
    enable_websearch,   \* agent_config.enable_websearch
    query_mode,         \* agent_config.query_mode
    web_searcher,       \* the Retriever object has a web_searcher attribute
    \* ---- one call of QueryEngine.advanced_query
    q_pc,               \* position in advanced_query
    q_req,              \* its keyword arguments
    all_results,        \* local all_results
    filtered_results,   \* local filtered_results
    rerank_calls,       \* batches handed to compute_rerank_scores, in order
    \* ---- one call of Retriever.__call__
    pc,                 \* position in retrieval / __call__
    meta,               \* the request's meta
    history,            \* the request's history
    refs,               \* the refs dict built by retrieval
    gen_calls,          \* generation calls made, in order
    web_calls,          \* number of web_searcher.search calls
    source_calls,       \* calls to the stores and steps on their hits, in order
    flag_reads,         \* the agent_config flags this call has read, in order
    raised,             \* the exception that left __call__, or "none"
    out_query,          \* the query string __call__ returns
    \* ---- one chat request
    c_pc,               \* position in generate_response
    c_meta,             \* the request's meta (the source flags only)
    c_retr,             \* how the retriever call ended
    c_stream,           \* status of every chunk yielded so far
    c_model_calls,      \* number of model.generate_response calls
    c_exc,              \* str(e) of the exception the retriever raised
    c_message,          \* message of the last chunk yielded, in pieces
    c_history,          \* history of the last finished chunk, which the client sends back
    c_requests,         \* POST /chat/ requests so far
    \* ---- the KnowledgeBase object and its stores
    embed_model,        \* embedding_manager.get_model_name()
    kb_embed_model,     \* embed_model recorded for database "db1"
    kb_files,           \* file records: every status written, in order
    kb_vectors,         \* insert_vectors calls that succeeded
    k_pc,               \* position in add_files
    k_chunks,           \* file_chunks of the last add_files call that reached the loop
    k_queue,            \* file_chunks entries the loop of add_files has not handled
    k_calls,            \* add_files calls so far
    k_ret,              \* how the last KnowledgeBase call ended
    \* ---- one HistoryManager object
    h_messages,         \* self.messages
    h_op,               \* the last method called, with its arguments
    h_prev,             \* self.messages before that call
    h_base,             \* self.messages before the update_ai calls in a row began
    h_out,              \* the list get_history_with_msg returned
    \* ---- one Neo4jConnectionManager object
    conn_driver,        \* self._driver: None, or the database the driver was opened for
    conn_status,        \* self._status
    conn_db_name,       \* self.db_name
    conn_last,          \* the last method called, its argument and how it ended
    conn_calls          \* calls made on the manager so far

configVars == <<enable_rerank, reranker, enable_kb, enable_websearch, query_mode, web_searcher>>
queryVars == <<q_pc, q_req, all_results, filtered_results, rerank_calls>>
retrVars ==
    <<pc, meta, history, refs, gen_calls, web_calls, source_calls, flag_reads, raised,
      out_query>>
chatVars ==
    <<c_pc, c_meta, c_retr, c_stream, c_model_calls, c_exc, c_message, c_history,
      c_requests>>
kbVars ==
    <<embed_model, kb_embed_model, kb_files, kb_vectors, k_pc, k_chunks, k_queue, k_calls,
      k_ret>>
histVars == <<h_messages, h_op, h_prev, h_base, h_out>>
connVars == <<conn_driver, conn_status, conn_db_name, conn_last, conn_calls>>
libVars == <<kbVars, histVars, connVars>>
vars == <<configVars, queryVars, retrVars, chatVars, libVars>>

(***************************************************************************)
(* Bounds of the model.                                                    *)
(***************************************************************************)
MaxResults == 3     \* hits one vector search returns
MaxTopK == 3        \* largest top_k a request passes
MaxKbHits == 2      \* hits of the vector search inside a retrieval
MaxDeltas == 2      \* chunks the model streams for one answer
MaxFiles == 2       \* files handed to one add_files call
MaxAddCalls == 1    \* add_files calls
MaxMessages == 4    \* messages one HistoryManager holds
MaxRounds == 2      \* largest max_rounds passed to get_history_with_msg
MaxRequests == 2     \* POST /chat/ requests of one conversation
MaxConnCalls == 8   \* calls made on one Neo4jConnectionManager

\* Python's None, and the absent "rerank_score" key of a hit.
None == -1

default_distance_threshold == 5
default_rerank_threshold == 1

\* The values the vector store and the reranker hand back (tenths).
Distances == {4, 5, 6, 9}
RerankScores == {1, 2, 3}
DistanceThresholds == {4, default_distance_threshold}
RerankThresholds == {default_rerank_threshold, 2}

Min(a, b) == IF a < b THEN a ELSE b

(***************************************************************************)
(* QueryEngine.advanced_query, stage by stage.                             *)
(***************************************************************************)

\* Mutant: the hits come with a rerank_score from the store.
MkHitsScored(d) ==
    [i \in 1..Len(d) |-> [id |-> i, distance |-> d[i], rerank_score |-> 1]]

\* search_vectors' answer: hit i of the list carries id i.
MkHits(d) ==
    [i \in 1..Len(d) |-> [id |-> i, distance |-> d[i], rerank_score |-> None]]

SearchHits(n) == {MkHits(d) : d \in UNION {[1..k -> Distances] : k \in 0..n}}

\* Mutant: a candidate on the threshold is kept.
FilterByDistanceGe(results, threshold) ==
    SelectSeq(results, LAMBDA r : r.distance >= threshold)

\* filtered_results = [r for r in all_results if r["distance"] > distance_threshold]
FilterByDistance(results, threshold) ==
    SelectSeq(results, LAMBDA r : r.distance > threshold)

\* Mutant: the rerank stage is never entered.
RerankAppliesNever(filtered) == FALSE

\* Mutant: the loaded reranker is not looked at.
RerankAppliesWithoutReranker(filtered) ==
    enable_rerank /\ Len(filtered) > 0

\* agent_config.enable_rerank and len(filtered_results) > 0 and self.embedding_manager.reranker
RerankApplies(filtered) ==
    enable_rerank /\ Len(filtered) > 0 /\ reranker

\* for i, r in enumerate(filtered_results): r["rerank_score"] = rerank_scores[i]
SetRerankScores(filtered, scores) ==
    [i \in 1..Len(filtered) |-> [filtered[i] EXCEPT !.rerank_score = scores[i]]]

\* The hits of filtered_results are the dict objects of all_results: the
\* scores written to them show in all_results too.
Aliased(all, scored) ==
    [i \in 1..Len(all) |->
        IF \E j \in 1..Len(scored) : scored[j].id = all[i].id
        THEN (CHOOSE r \in {scored[j] : j \in 1..Len(scored)} : r.id = all[i].id)
        ELSE all[i]]

\* x goes behind every element whose score is at least its own: list.sort is
\* stable, with reverse=True too.
InsertDesc(s, x) ==
    LET keep == {i \in 1..Len(s) : s[i].rerank_score >= x.rerank_score}
        k == IF keep = {} THEN 0 ELSE CHOOSE i \in keep : \A j \in keep : j <= i
    IN  SubSeq(s, 1, k) \o <<x>> \o SubSeq(s, k + 1, Len(s))

RECURSIVE SortDesc(_)
\* Mutant: the sort is left out.
SortByRerankNone(s) == s

\* filtered_results.sort(key=lambda x: x["rerank_score"], reverse=True)
SortByRerank(s) == SortDesc(s)

SortDesc(s) ==
    IF s = <<>> THEN <<>>
    ELSE InsertDesc(SortDesc(SubSeq(s, 1, Len(s) - 1)), s[Len(s)])

\* Mutant: an item on the rerank threshold is kept.
FilterByRerankGe(results, threshold) ==
    SelectSeq(results, LAMBDA r : r.rerank_score >= threshold)

\* [res for res in filtered_results if res["rerank_score"] > rerank_threshold]
FilterByRerank(results, threshold) ==
    SelectSeq(results, LAMBDA r : r.rerank_score > threshold)

\* Mutant: the last top_k items are kept.
ApplyTopKTail(results, top_k) ==
    IF top_k = None \/ top_k = 0 THEN results
    ELSE SubSeq(results, Len(results) - Min(top_k, Len(results)) + 1, Len(results))

\* if top_k: filtered_results = filtered_results[:top_k]
\* (None and 0 are both falsy)
ApplyTopK(results, top_k) ==
    IF top_k = None \/ top_k = 0 THEN results
    ELSE SubSeq(results, 1, Min(top_k, Len(results)))

\* The rerank stage as a whole, given the scores the reranker returns.
RerankStage(filtered, scores, threshold) ==
    FilterByRerank(SortByRerank(SetRerankScores(filtered, scores)), threshold)

QueryRequests ==
    [distance_threshold : DistanceThresholds,
     rerank_threshold : RerankThresholds,
     top_k : {None} \cup (0..MaxTopK)]

NoRequest == [distance_threshold |-> default_distance_threshold,
              rerank_threshold |-> default_rerank_threshold,
              top_k |-> None]

\* all_results = self.search(query, db_id, limit=max_query_count)
QSearch ==
    /\ q_pc = "start"
    /\ \E req \in QueryRequests, hits \in SearchHits(MaxResults) :
        /\ q_req' = req
        /\ all_results' = hits
    /\ q_pc' = "searched"
    /\ UNCHANGED <<filtered_results, rerank_calls, configVars, retrVars, chatVars, libVars>>

\* search raises (the embedding model is not initialized, the store fails):
\* nothing in advanced_query catches it.
QSearchRaises ==
    /\ q_pc = "start"
    /\ q_pc' = "raised"
    /\ UNCHANGED <<q_req, all_results, filtered_results, rerank_calls,
                   configVars, retrVars, chatVars, libVars>>

QFilter ==
    /\ q_pc = "searched"
    /\ filtered_results' = FilterByDistance(all_results, q_req.distance_threshold)
    /\ q_pc' = "filtered"
    /\ UNCHANGED <<q_req, all_results, rerank_calls, configVars, retrVars, chatVars, libVars>>

QRerank ==
    /\ q_pc = "filtered"
    /\ RerankApplies(filtered_results)
    /\ \E scores \in [1..Len(filtered_results) -> RerankScores] :
        LET scored == SetRerankScores(filtered_results, scores)
        IN  /\ filtered_results' =
                FilterByRerank(SortByRerank(scored), q_req.rerank_threshold)
            /\ all_results' = Aliased(all_results, scored)
    /\ rerank_calls' = Append(rerank_calls, [i \in 1..Len(filtered_results) |-> filtered_results[i].id])
    /\ q_pc' = "ranked"
    /\ UNCHANGED <<q_req, configVars, retrVars, chatVars, libVars>>

QSkipRerank ==
    /\ q_pc = "filtered"
    /\ ~RerankApplies(filtered_results)
    /\ q_pc' = "ranked"
    /\ UNCHANGED <<q_req, all_results, filtered_results, rerank_calls,
                   configVars, retrVars, chatVars, libVars>>

QTopK ==
    /\ q_pc = "ranked"
    /\ filtered_results' = ApplyTopK(filtered_results, q_req.top_k)
    /\ q_pc' = "done"
    /\ UNCHANGED <<q_req, all_results, rerank_calls, configVars, retrVars, chatVars, libVars>>

(***************************************************************************)
(* Retriever (ai_engine/core/retriever.py).                                *)
(***************************************************************************)
UserQuery == "Y"                \* the query argument of __call__
RewrittenQuery == "rewritten"   \* content of the rewrite generation
Passage == "passage"            \* content of the hypothetical-passage generation

default_top_k == 10

\* Distances and rerank scores of the hits inside a retrieval.
KbDistances == {default_distance_threshold, 6}
KbRerankScores == {default_rerank_threshold, 3}

Metas ==
    {m \in [db_id : BOOLEAN, use_graph : BOOLEAN, use_web : BOOLEAN,
            mode : {"chat", "search"}, use_rewrite_query : {"off", "on", "hyde"}] :
        m.mode = "chat" => m.use_rewrite_query = "off"}

NoMeta == [db_id |-> FALSE, use_graph |-> FALSE, use_web |-> FALSE,
           mode |-> "chat", use_rewrite_query |-> "off"]

Histories == {<<>>, <<[role |-> "user", content |-> "X"]>>}

\* A string is a sequence of tokens: a word, a blank, the delimiter.  The
\* empty string is <<>>.
Delimiter == "<->"

\* The content of the entity-extraction response: "", "Paris<->France" and
\* "Paris<-> <->".
NerResponses ==
    {<<>>, <<"Paris", Delimiter, "France">>, <<"Paris", Delimiter, " ", Delimiter>>}

RECURSIVE Split(_)
\* str.split("<->"): the segments between the delimiters, as they are; one
\* more segment than there are delimiters, so [""] for the empty string.
Split(str) ==
    IF \A i \in 1..Len(str) : str[i] # Delimiter
    THEN <<str>>
    ELSE LET k == CHOOSE i \in 1..Len(str) :
                    str[i] = Delimiter /\ \A j \in 1..(i - 1) : str[j] # Delimiter
         IN  <<SubSeq(str, 1, k - 1)>> \o Split(SubSeq(str, k + 1, Len(str)))

\* entities = model.generate_response(...).content.split("<->")
SplitEntities(content) == Split(content)

\* Rows of MATCH (n)-[r]->(m) RETURN n, r, m: element ids of n, r and m.
T1 == [n |-> "n1", r |-> "r1", m |-> "n2"]
T2 == [n |-> "n2", r |-> "r2", m |-> "n3"]
GraphAnswers == {<<>>, <<T1, T2>>}

WebAnswers == {<<>>, <<[title |-> "t1", content |-> "c1"]>>}

EmptyRefs ==
    [entities |-> <<>>,
     knowledge_base |-> [results |-> <<>>, all_results |-> <<>>,
                         rw_query |-> "unset", message |-> "unset"],
     graph_base |-> [nodes |-> <<>>, edges |-> <<>>],
     web_search |-> [results |-> <<>>, message |-> "unset"]]

\* Mutant: the global query_mode decides for every request.
RewriteSpanGlobal(m) == query_mode

\* rewrite_query_span: the meta's own mode for a search request, the global
\* query_mode otherwise.
RewriteSpan(m) ==
    IF m.mode = "search" THEN m.use_rewrite_query ELSE query_mode

\* Mutant: the rewrite generation call is made in every mode.
RewriteCallsAlways(span, hist) == <<[kind |-> "rewrite", text |-> UserQuery]>>

\* The generation calls rewrite_query starts before it reaches the hyde branch.
RewriteCalls(span, hist) ==
    IF span = "off" THEN <<>>
    ELSE <<[kind |-> "rewrite", text |-> UserQuery]>>

\* rewrite_query: every way it can end. HyDEOperator.execute takes
\* llm_handler, user_question and related_context; rewrite_query passes
\* model_callable, query and context_str, so the call raises TypeError before
\* execute's body runs.
RewriteOutcomes(m, hist) ==
    LET span == RewriteSpan(m)
        calls == RewriteCalls(span, hist)
    IN  IF span = "off"
        THEN {[calls |-> calls, exc |-> "none", result |-> UserQuery]}
        ELSE {[calls |-> calls, exc |-> "rewrite_generation", result |-> "unset"]}
             \cup
             (IF span = "hyde"
              THEN {[calls |-> calls, exc |-> "hyde_call", result |-> "unset"]}
              ELSE {[calls |-> calls, exc |-> "none", result |-> RewrittenQuery]})

\* advanced_query as one call: every result it can return for these hits.
AdvancedQueryResults(hits, req) ==
    LET filtered == FilterByDistance(hits, req.distance_threshold)
    IN  IF RerankApplies(filtered)
        THEN {[results |-> ApplyTopK(RerankStage(filtered, scores, req.rerank_threshold), req.top_k),
               all_results |-> Aliased(hits, SetRerankScores(filtered, scores)),
               batches |-> <<[i \in 1..Len(filtered) |-> filtered[i].id]>>,
               steps |-> <<[op |-> "kb_search"], [op |-> "kb_filter"], [op |-> "kb_rerank"]>>] :
                    scores \in [1..Len(filtered) -> KbRerankScores]}
        ELSE {[results |-> ApplyTopK(filtered, req.top_k),
               all_results |-> hits,
               batches |-> <<>>,
               steps |-> <<[op |-> "kb_search"], [op |-> "kb_filter"]>>]}

KbHits == {MkHits(d) : d \in UNION {[1..k -> KbDistances] : k \in 0..MaxKbHits}}

\* The keyword arguments query_knowledgebase passes when the meta sets none.
KbRequest == [distance_threshold |-> default_distance_threshold,
              rerank_threshold |-> default_rerank_threshold,
              top_k |-> default_top_k]

RECURSIVE Dedupe(_)
\* The first occurrence of every element, in order.
Dedupe(s) ==
    IF s = <<>> THEN <<>>
    ELSE LET front == Dedupe(SubSeq(s, 1, Len(s) - 1))
             x == s[Len(s)]
         IN  IF \E i \in 1..Len(front) : front[i] = x THEN front ELSE Append(front, x)

RECURSIVE Flatten(_)
Flatten(ss) == IF ss = <<>> THEN <<>> ELSE Head(ss) \o Flatten(Tail(ss))

\* The first row that carries edge id rid.
FirstRow(rows, rid) ==
    rows[CHOOSE i \in 1..Len(rows) :
            rows[i].r = rid /\ \A j \in 1..(i - 1) : rows[j].r # rid]

\* Mutant: every row adds its nodes and its edge again.
FormatQueryResultsNoDedupe(rows) ==
    [nodes |-> Flatten([i \in 1..Len(rows) |-> <<[id |-> rows[i].n], [id |-> rows[i].m]>>]),
     edges |-> [i \in 1..Len(rows) |->
                  [id |-> rows[i].r, source_id |-> rows[i].n, target_id |-> rows[i].m]]]

\* DataTransformer.format_query_results: the nodes and the edges, each id
\* once, in order of first appearance.
format_query_results(rows) ==
    LET node_ids == Dedupe(Flatten([i \in 1..Len(rows) |-> <<rows[i].n, rows[i].m>>]))
        edge_ids == Dedupe([i \in 1..Len(rows) |-> rows[i].r])
    IN  [nodes |-> [k \in 1..Len(node_ids) |-> [id |-> node_ids[k]]],
         edges |-> [k \in 1..Len(edge_ids) |->
                      [id |-> edge_ids[k],
                       source_id |-> FirstRow(rows, edge_ids[k]).n,
                       target_id |-> FirstRow(rows, edge_ids[k]).m]]]

\* Mutant: the intended test, use_web and enable_websearch.
WebDisabledIntended(m) == ~(m.use_web /\ enable_websearch)

\* if not (refs["meta"].get("use_web") or not agent_config.enable_websearch)
WebDisabled(m) == ~(m.use_web \/ ~enable_websearch)

\* Mutant: the template is used whatever the evidence.
ConstructQueryAlways(q, r) ==
    [template |-> TRUE, query |-> q, external |-> <<>>]

\* construct_query: the query itself, or the QA template around the labelled
\* evidence groups.
construct_query(q, r) ==
    LET kb == IF r.knowledge_base.results # <<>>
              THEN <<"Knowledge base information:">> ELSE <<>>
        db == IF Len(r.graph_base.nodes) > 0
              THEN <<"Graph database information:">> ELSE <<>>
        web == IF r.web_search.results # <<>>
               THEN <<"Web search information:">> ELSE <<>>
        external_parts == kb \o db \o web
    IN  IF Len(external_parts) > 0
        THEN [template |-> TRUE, query |-> q, external |-> external_parts]
        ELSE [template |-> FALSE, query |-> q, external |-> <<>>]

\* Mutant: retrieval returns without the web search.
NextStageSkipsWeb(stage) ==
    CASE stage = "reco_entities" -> "query_knowledgebase"
      [] stage = "query_knowledgebase" -> "query_graph"
      [] stage = "query_graph" -> "construct_query"
      [] stage = "query_web" -> "construct_query"

\* The statements of retrieval and __call__, one after another: each source
\* call is started when the one before it has returned.
NextStage(stage) ==
    CASE stage = "reco_entities" -> "query_knowledgebase"
      [] stage = "query_knowledgebase" -> "query_graph"
      [] stage = "query_graph" -> "query_web"
      [] stage = "query_web" -> "construct_query"

\* retriever(query, history, meta)
Call ==
    /\ pc = "idle"
    /\ \E m \in Metas, h \in Histories :
        /\ meta' = m
        /\ history' = h
    /\ pc' = "reco_entities"
    /\ UNCHANGED <<refs, gen_calls, web_calls, source_calls, flag_reads, raised,
                   out_query, rerank_calls, q_pc, q_req, all_results, filtered_results,
                   configVars, chatVars, libVars>>

Raise(exc) ==
    /\ pc' = "raised"
    /\ raised' = exc

\* refs["entities"] = self.reco_entities(query, history, refs)
reco_entities ==
    /\ pc = "reco_entities"
    /\ IF meta.use_graph
       THEN /\ gen_calls' = Append(gen_calls, [kind |-> "ner", text |-> UserQuery])
            /\ \/ \E response \in NerResponses :
                    /\ refs' = [refs EXCEPT !.entities = SplitEntities(response)]
                    /\ pc' = NextStage("reco_entities")
                    /\ UNCHANGED raised
               \/ /\ Raise("ner_generation")
                  /\ UNCHANGED refs
       ELSE /\ pc' = NextStage("reco_entities")
            /\ UNCHANGED <<refs, gen_calls, raised>>
    /\ UNCHANGED <<meta, history, web_calls, source_calls, flag_reads, out_query,
                   rerank_calls, q_pc, q_req, all_results, filtered_results,
                   configVars, chatVars, libVars>>

\* The flags query_knowledgebase reads up to the call of knowledge_base.query:
\* enable_kb once a db_id is given (`not db_id or not enable_kb`), and in
\* rewrite_query the global query_mode unless the request is a search.
KbFlagReads(m) ==
    IF ~m.db_id THEN <<>>
    ELSE <<[flag |-> "enable_kb", value |-> enable_kb]>> \o
         (IF enable_kb /\ m.mode # "search"
          THEN <<[flag |-> "query_mode", value |-> query_mode]>> ELSE <<>>)

\* if refs["meta"].get("use_graph") and agent_config.enable_kb
GraphFlagReads(m) ==
    IF m.use_graph THEN <<[flag |-> "enable_kb", value |-> enable_kb]>> ELSE <<>>

\* refs["meta"].get("use_web") or not agent_config.enable_websearch
WebFlagReads(m) ==
    IF m.use_web THEN <<>>
    ELSE <<[flag |-> "enable_websearch", value |-> enable_websearch]>>

\* refs["knowledge_base"] = self.query_knowledgebase(query, history, refs)
query_knowledgebase ==
    /\ pc = "query_knowledgebase"
    /\ IF ~meta.db_id \/ ~enable_kb
       THEN /\ refs' = [refs EXCEPT !.knowledge_base =
                            [results |-> <<>>, all_results |-> <<>>,
                             rw_query |-> UserQuery, message |-> "not enabled"]]
            /\ pc' = NextStage("query_knowledgebase")
            /\ UNCHANGED <<gen_calls, raised, rerank_calls, source_calls>>
       ELSE \E rw \in RewriteOutcomes(meta, history) :
            /\ gen_calls' = gen_calls \o rw.calls
            /\ IF rw.exc # "none"
               THEN /\ Raise(rw.exc)
                    /\ UNCHANGED <<refs, rerank_calls, source_calls>>
               ELSE \/ /\ Raise("kb_query")
                       /\ source_calls' = Append(source_calls, [op |-> "kb_search"])
                       /\ UNCHANGED <<refs, rerank_calls>>
                    \/ \E hits \in KbHits :
                       \E res \in AdvancedQueryResults(hits, KbRequest) :
                            /\ refs' = [refs EXCEPT !.knowledge_base =
                                            [results |-> res.results,
                                             all_results |-> res.all_results,
                                             rw_query |-> rw.result,
                                             message |-> ""]]
                            /\ rerank_calls' = rerank_calls \o res.batches
                            /\ source_calls' = source_calls \o res.steps
                            /\ pc' = NextStage("query_knowledgebase")
                            /\ UNCHANGED raised
    /\ flag_reads' = flag_reads \o KbFlagReads(meta)
    /\ UNCHANGED <<meta, history, web_calls, out_query,
                   q_pc, q_req, all_results, filtered_results, configVars, chatVars, libVars>>

\* The entities query_graph looks up: all but the empty string.
LookedUp(entities) == SelectSeq(entities, LAMBDA e : e # <<>>)

\* graph_database.get_sample_nodes(entity), once for every entity of the list
GraphLookups(entities) ==
    [i \in 1..Len(entities) |-> [op |-> "graph_lookup", entity |-> entities[i]]]

\* refs["graph_base"] = self.query_graph(query, history, refs)
query_graph ==
    /\ pc = "query_graph"
    /\ IF meta.use_graph /\ enable_kb /\ LookedUp(refs.entities) # <<>>
       THEN \/ \E answer \in GraphAnswers :
                LET looked == LookedUp(refs.entities)
                    results == Flatten([i \in 1..Len(looked) |-> answer])
                IN  /\ refs' = [refs EXCEPT !.graph_base = format_query_results(results)]
                    /\ source_calls' = source_calls \o GraphLookups(looked)
                    /\ pc' = NextStage("query_graph")
                    /\ UNCHANGED raised
            \/ \* the k-th lookup raises
               \E k \in 1..Len(LookedUp(refs.entities)) :
                    /\ source_calls' = source_calls \o
                            GraphLookups(SubSeq(LookedUp(refs.entities), 1, k))
                    /\ Raise("graph_query")
                    /\ UNCHANGED refs
       ELSE /\ refs' = [refs EXCEPT !.graph_base = format_query_results(<<>>)]
            /\ pc' = NextStage("query_graph")
            /\ UNCHANGED <<raised, source_calls>>
    /\ flag_reads' = flag_reads \o GraphFlagReads(meta)
    /\ UNCHANGED <<meta, history, gen_calls, web_calls, out_query, rerank_calls,
                   q_pc, q_req, all_results, filtered_results, configVars, chatVars, libVars>>

\* refs["web_search"] = self.query_web(query, history, refs)
query_web ==
    /\ pc = "query_web"
    /\ IF WebDisabled(meta)
       THEN /\ refs' = [refs EXCEPT !.web_search =
                            [results |-> <<>>, message |-> "Web search is disabled"]]
            /\ UNCHANGED <<web_calls, source_calls>>
       ELSE IF ~web_searcher
       THEN \* AttributeError: no web_searcher was loaded; caught
            /\ refs' = [refs EXCEPT !.web_search =
                            [results |-> <<>>, message |-> "Web search error"]]
            /\ UNCHANGED <<web_calls, source_calls>>
       ELSE /\ \E answer \in WebAnswers :
                refs' = [refs EXCEPT !.web_search = [results |-> answer, message |-> ""]]
            /\ web_calls' = web_calls + 1
            /\ source_calls' = Append(source_calls, [op |-> "web_search"])
    /\ pc' = NextStage("query_web")
    /\ flag_reads' = flag_reads \o WebFlagReads(meta)
    /\ UNCHANGED <<meta, history, gen_calls, raised, out_query, rerank_calls,
                   q_pc, q_req, all_results, filtered_results, configVars, chatVars, libVars>>

\* query = self.construct_query(query, refs, meta); return query, refs
Return ==
    /\ pc = "construct_query"
    /\ out_query' = construct_query(UserQuery, refs)
    /\ pc' = "returned"
    /\ UNCHANGED <<meta, history, refs, gen_calls, web_calls, source_calls,
                   flag_reads, raised, rerank_calls,
                   q_pc, q_req, all_results, filtered_results, configVars, chatVars, libVars>>

\* The call is over (it returned or raised); the next request starts afresh.
Finish ==
    /\ pc \in {"returned", "raised"}
    /\ pc' = "idle"
    /\ meta' = NoMeta
    /\ history' = <<>>
    /\ refs' = EmptyRefs
    /\ gen_calls' = <<>>
    /\ web_calls' = 0
    /\ source_calls' = <<>>
    /\ flag_reads' = <<>>
    /\ raised' = "none"
    /\ out_query' = "none"
    /\ rerank_calls' = <<>>
    /\ UNCHANGED <<q_pc, q_req, all_results, filtered_results, configVars, chatVars, libVars>>

\* agent_config[key] = value
ConfigWrite ==
    /\ \/ \E v \in BOOLEAN : /\ enable_kb' = v
                             /\ UNCHANGED <<enable_websearch, enable_rerank, query_mode>>
       \/ \E v \in BOOLEAN : /\ enable_websearch' = v
                             /\ UNCHANGED <<enable_kb, enable_rerank, query_mode>>
       \/ \E v \in BOOLEAN : /\ enable_rerank' = v
                             /\ UNCHANGED <<enable_kb, enable_websearch, query_mode>>
       \/ \E v \in {"off", "on", "hyde"} :
                             /\ query_mode' = v
                             /\ UNCHANGED <<enable_kb, enable_websearch, enable_rerank>>
    /\ UNCHANGED <<reranker, web_searcher, queryVars, retrVars, chatVars, libVars>>

\* knowledge_base.restart() reconnects the vector store; retriever.restart()
\* runs _load_models, which loads a web searcher when enable_websearch is
\* set and never drops one.
LoadModels ==
    /\ web_searcher' = (web_searcher \/ enable_websearch)
    /\ UNCHANGED <<enable_rerank, reranker, enable_kb, enable_websearch, query_mode,
                   queryVars, retrVars, chatVars, libVars>>

\* POST /config, served between two retrievals.
update_config ==
    /\ pc = "idle"
    /\ ConfigWrite

\* POST /restart, served between two retrievals.
restart ==
    /\ pc = "idle"
    /\ LoadModels

\* POST /config while a retrieval is under way: the handler is a coroutine
\* on the event loop, the retrieval runs in a worker thread of the streaming
\* response, and agent_config is one module-level object without a lock.
update_config_during_retrieval ==
    /\ pc \notin {"idle", "returned", "raised"}
    /\ ConfigWrite

\* POST /restart while a retrieval is under way.
restart_during_retrieval ==
    /\ pc \notin {"idle", "returned", "raised"}
    /\ LoadModels

QueryIdle ==
    /\ q_pc = "start"
    /\ q_req = NoRequest
    /\ all_results = <<>>
    /\ filtered_results = <<>>
    /\ rerank_calls = <<>>

ConfigDefault ==
    /\ enable_kb = FALSE
    /\ enable_websearch = FALSE
    /\ query_mode = "off"
    /\ web_searcher = FALSE

RetrIdle ==
    /\ pc = "idle"
    /\ meta = NoMeta
    /\ history = <<>>
    /\ refs = EmptyRefs
    /\ gen_calls = <<>>
    /\ web_calls = 0
    /\ source_calls = <<>>
    /\ flag_reads = <<>>
    /\ raised = "none"
    /\ out_query = "none"

ChatIdle ==
    /\ c_pc = "idle"
    /\ c_meta = [db_id |-> FALSE, use_graph |-> FALSE, use_web |-> FALSE]
    /\ c_retr = "none"
    /\ c_stream = <<>>
    /\ c_model_calls = 0
    /\ c_exc = "none"
    /\ c_message = <<>>
    /\ c_history = <<>>
    /\ c_requests = 0

NoCall == [op |-> "none"]

KbIdle ==
    /\ embed_model = "model_a"
    /\ kb_embed_model = "model_a"
    /\ kb_files = <<>>
    /\ kb_vectors = {}
    /\ k_pc = "idle"
    /\ k_chunks = <<>>
    /\ k_queue = <<>>
    /\ k_calls = 0
    /\ k_ret = NoCall

\* No HistoryManager has been constructed.
HistIdle ==
    /\ h_messages = <<>>
    /\ h_op = [name |-> "none"]
    /\ h_prev = <<>>
    /\ h_base = <<>>
    /\ h_out = <<>>

NEO4J_DB_NAME == "neo4j"

NoDriver == "None"

\* Neo4jConnectionManager.__init__
ConnIdle ==
    /\ conn_driver = NoDriver
    /\ conn_status = "closed"
    /\ conn_db_name = NEO4J_DB_NAME
    /\ conn_last = [op |-> "none"]
    /\ conn_calls = 0

\* The program after construction, for any configuration file: the
\* Retriever has loaded a web searcher exactly when enable_websearch was set,
\* and the EmbeddingManager has a reranker only when enable_kb and
\* enable_rerank were set and loading it did not fail.
Init ==
    /\ enable_kb \in BOOLEAN
    /\ enable_websearch \in BOOLEAN
    /\ enable_rerank \in BOOLEAN
    /\ query_mode \in {"off", "on", "hyde"}
    /\ web_searcher = enable_websearch
    /\ reranker \in (IF enable_kb /\ enable_rerank THEN BOOLEAN ELSE {FALSE})
    /\ QueryIdle
    /\ RetrIdle
    /\ ChatIdle
    /\ HistIdle
    /\ KbIdle
    /\ ConnIdle

Next ==
    \/ Call
    \/ reco_entities
    \/ query_knowledgebase
    \/ query_graph
    \/ query_web
    \/ Return
    \/ Finish
    \/ update_config
    \/ restart

Spec == Init /\ [][Next]_vars

\* Requests served concurrently: /config and /restart at any point of a
\* retrieval.
NextConcurrent ==
    \/ Call
    \/ reco_entities
    \/ query_knowledgebase
    \/ query_graph
    \/ query_web
    \/ Return
    \/ Finish
    \/ update_config
    \/ restart
    \/ update_config_during_retrieval
    \/ restart_during_retrieval

SpecConcurrent == Init /\ [][NextConcurrent]_vars

(***************************************************************************)
(* HistoryManager (ai_engine/core/history.py).                             *)
(***************************************************************************)
Msg(role, content) == [role |-> role, content |-> content]

SystemPrompt == "system prompt"

\* self.messages.append({"role": role, "content": content})
add(messages, role, content) == Append(messages, Msg(role, content))

\* __init__: self.messages = history or []; self.add_system(system_prompt)
HistoryManager(hist, system_prompt) == add(hist, "system", system_prompt)

\* Mutant: an assistant message is appended whatever the last message is.
update_ai_appends(messages, content) == add(messages, "assistant", content)

\* update_ai: the content of a trailing assistant message is replaced,
\* otherwise an assistant message is appended.
update_ai(messages, content) ==
    IF messages[Len(messages)].role = "assistant"
    THEN [messages EXCEPT ![Len(messages)].content = content]
    ELSE add(messages, "assistant", content)

\* s[-k:] of Python: the last k items, all of them when k is 0 or k >= len(s).
LastItems(s, k) ==
    IF k = 0 \/ k >= Len(s) THEN s ELSE SubSeq(s, Len(s) - k + 1, Len(s))

\* get_history_with_msg: a copy of the messages, or of the last 2*max_rounds
\* of them, with the new message appended.
get_history_with_msg(messages, msg, role, max_rounds) ==
    LET hist == IF max_rounds = None THEN messages
                ELSE LastItems(messages, 2 * max_rounds)
    IN  Append(hist, Msg(role, msg))

(***************************************************************************)
(* chat_post.generate_response (backend/routers/chat.py).  The retriever   *)
(* call is taken by its two ends: it returns, or it raises (Spec reaches   *)
(* pc = "raised").                                                         *)
(***************************************************************************)
ChatMetas == [db_id : BOOLEAN, use_graph : BOOLEAN, use_web : BOOLEAN]

\* meta.get("use_web") or meta.get("use_graph") or meta.get("db_id")
need_retrieve(m) == m.use_web \/ m.use_graph \/ m.db_id

\* Mutant: the retriever's exception is swallowed and generation goes on.
OnRetrieverErrorGoOn(stream) ==
    [stream |-> Append(stream, "generating"), next |-> "generate"]

\* except Exception: yield make_chunk(message=..., status="error"); return
OnRetrieverError(stream) ==
    [stream |-> Append(stream, "error"), next |-> "closed"]

\* The exceptions that leave Retriever.__call__ (the values of raised).
RetrieverErrors ==
    {"ner_generation", "rewrite_generation", "hyde_call", "kb_query", "graph_query"}

\* Mutant: the error chunk carries a fixed message.
RetrieverErrorMessageFixed(e) == <<"Retriever error">>

\* f"Retriever error: {e}"
RetrieverErrorMessage(e) == <<"Retriever error: ", e>>

\* f"Model error: {e}"
ModelErrorMessage(e) == <<"Model error: ", e>>

\* The other objects, and the bookkeeping of SpecHistory, which the chat
\* endpoint leaves alone.
ChatFrame == <<configVars, queryVars, retrVars, kbVars, connVars, h_op, h_prev, h_base>>

\* POST /chat/ with the history the client holds:
\* history_manager = HistoryManager(history, system_prompt=...); then the
\* generator runs to its first yield, or to the model call.
ChatPost ==
    /\ c_pc = "idle"
    /\ c_requests < MaxRequests
    /\ c_requests' = c_requests + 1
    /\ h_messages' = HistoryManager(c_history, SystemPrompt)
    /\ \E m \in ChatMetas :
        /\ c_meta' = m
        /\ IF need_retrieve(m)
           THEN /\ c_stream' = <<"searching">>
                /\ c_pc' = "retrieve"
           ELSE /\ c_stream' = <<>>
                /\ c_pc' = "generate"
    /\ UNCHANGED <<c_retr, c_model_calls, c_exc, c_message, c_history, h_out, ChatFrame>>

\* modified_query, refs = retriever(...); yield make_chunk(status="generating")
ChatRetrieverReturns ==
    /\ c_pc = "retrieve"
    /\ c_retr' = "returned"
    /\ c_stream' = Append(c_stream, "generating")
    /\ c_pc' = "generate"
    /\ UNCHANGED <<c_meta, c_model_calls, c_exc, c_message, c_history, c_requests,
                   h_messages, h_out, ChatFrame>>

ChatRetrieverRaises ==
    /\ c_pc = "retrieve"
    /\ c_retr' = "raised"
    /\ \E e \in RetrieverErrors :
        /\ c_exc' = e
        /\ c_message' = RetrieverErrorMessage(e)
    /\ c_stream' = OnRetrieverError(c_stream).stream
    /\ c_pc' = OnRetrieverError(c_stream).next
    /\ UNCHANGED <<c_meta, c_model_calls, c_history, c_requests, h_messages, h_out,
                   ChatFrame>>

\* messages = history_manager.get_history_with_msg(modified_query,
\*     max_rounds=meta.get('history_round'));
\* history_manager.add_user(query); model.generate_response(messages, stream=True)
ChatModelCall ==
    /\ c_pc = "generate"
    /\ \E history_round \in {None} \cup 0..MaxRounds :
        h_out' = get_history_with_msg(
                     h_messages,
                     IF c_retr = "returned" THEN "modified_query" ELSE "query",
                     "user", history_round)
    /\ h_messages' = add(h_messages, "user", "query")
    /\ c_model_calls' = c_model_calls + 1
    /\ c_pc' = "streaming"
    /\ UNCHANGED <<c_meta, c_retr, c_stream, c_exc, c_message, c_history, c_requests,
                   ChatFrame>>

Deltas(stream) ==
    Len(SelectSeq(stream, LAMBDA st : st \in {"reasoning", "loading"}))

\* one delta of the model's stream: a reasoning chunk or a loading chunk
ChatDelta ==
    /\ c_pc = "streaming"
    /\ Deltas(c_stream) < MaxDeltas
    /\ \E st \in {"reasoning", "loading"} : c_stream' = Append(c_stream, st)
    /\ c_message' = <<>>
    /\ UNCHANGED <<c_pc, c_meta, c_retr, c_model_calls, c_exc, c_history, c_requests,
                   h_messages, h_out, ChatFrame>>

\* the model's stream ends: yield make_chunk(status="finished",
\*     history=history_manager.update_ai(content), refs=refs)
ChatFinished ==
    /\ c_pc = "streaming"
    /\ h_messages' = update_ai(h_messages, "content")
    /\ c_history' = h_messages'
    /\ c_stream' = Append(c_stream, "finished")
    /\ c_message' = <<>>
    /\ c_pc' = "closed"
    /\ UNCHANGED <<c_meta, c_retr, c_model_calls, c_exc, c_requests, h_out, ChatFrame>>

\* the model raises: yield make_chunk(message=..., status="error"); return
ChatModelRaises ==
    /\ c_pc = "streaming"
    /\ c_stream' = Append(c_stream, "error")
    /\ c_message' = ModelErrorMessage("model")
    /\ c_pc' = "closed"
    /\ UNCHANGED <<c_meta, c_retr, c_model_calls, c_exc, c_history, c_requests,
                   h_messages, h_out, ChatFrame>>

\* The response is over; the endpoint is ready for the client's next
\* request, which starts with nothing but the history the client holds.
ChatNextRequest ==
    /\ c_pc = "closed"
    /\ c_requests < MaxRequests
    /\ c_pc' = "idle"
    /\ c_meta' = [db_id |-> FALSE, use_graph |-> FALSE, use_web |-> FALSE]
    /\ c_retr' = "none"
    /\ c_stream' = <<>>
    /\ c_model_calls' = 0
    /\ c_exc' = "none"
    /\ c_message' = <<>>
    /\ h_messages' = <<>>
    /\ h_out' = <<>>
    /\ UNCHANGED <<c_history, c_requests, ChatFrame>>

\* The flag and the loaded reranker are independent of one another: POST
\* /config changes the flag alone, and _initialize_models leaves reranker
\* None when loading fails.
InitQuery ==
    /\ enable_rerank \in BOOLEAN
    /\ reranker \in BOOLEAN
    /\ ConfigDefault
    /\ QueryIdle
    /\ RetrIdle
    /\ ChatIdle
    /\ HistIdle
    /\ KbIdle
    /\ ConnIdle

NextQuery ==
    \/ QSearch
    \/ QSearchRaises
    \/ QFilter
    \/ QRerank
    \/ QSkipRerank
    \/ QTopK

SpecQuery == InitQuery /\ [][NextQuery]_vars

InitChat ==
    /\ enable_rerank = FALSE
    /\ reranker = FALSE
    /\ ConfigDefault
    /\ QueryIdle
    /\ RetrIdle
    /\ ChatIdle
    /\ HistIdle
    /\ KbIdle
    /\ ConnIdle

NextChat ==
    \/ ChatPost
    \/ ChatRetrieverReturns
    \/ ChatRetrieverRaises
    \/ ChatModelCall
    \/ ChatDelta
    \/ ChatFinished
    \/ ChatModelRaises
    \/ ChatNextRequest

SpecChat == InitChat /\ [][NextChat]_vars

(***************************************************************************)
(* KnowledgeBase (ai_engine/knowledge_database/__init__.py): add_files and *)
(* query on the database "db1".  The file records live in a local SQLite   *)
(* store, whose calls are taken to succeed; chunking, encoding and the     *)
(* vector store can fail.                                                  *)
(***************************************************************************)
EmbedModels == {"model_a", "model_b"}

\* get_model_name() of an EmbeddingManager whose embed_model is None
NotInitialized == "None"

DbIds == {"db1", "db0"}     \* "db0" has no record

\* Mutant: every model is taken as compatible.
CheckModelCompatibilityAlways(required_model) == TRUE

\* current_model = self.get_model_name(); return current_model == required_model
check_model_compatibility(required_model) == embed_model = required_model

\* f"Model mismatch: current={...get_model_name()}, required={db['embed_model']}"
ModelMismatchMessage(current, required) ==
    <<"Model mismatch: current=", current, ", required=", required>>

\* DocumentProcessor.process_files: one entry for every file, with its chunks,
\* or without any when reading or chunking the file failed.
process_files(call, parsed) ==
    [i \in 1..Len(parsed) |->
        [file_id |-> <<call, i>>, nodes |-> IF parsed[i] THEN 1 ELSE 0]]

Registered == {kb_files[i].file_id : i \in 1..Len(kb_files)}

\* The record of file fid.
FileRecord(fid) ==
    kb_files[CHOOSE i \in 1..Len(kb_files) : kb_files[i].file_id = fid]

\* Mutant: the status update is lost.
UpdateFileStatusLost(files, fid, status) == files

\* db_manager.update_file_status(file_id, status)
update_file_status(files, fid, status) ==
    [i \in 1..Len(files) |->
        IF files[i].file_id = fid
        THEN [files[i] EXCEPT !.statuses = Append(@, status)]
        ELSE files[i]]

\* add_files up to the loop: the database lookup, the model check and
\* process_files.
KbAddFiles ==
    /\ k_pc = "idle"
    /\ k_calls < MaxAddCalls
    /\ k_calls' = k_calls + 1
    /\ \E db_id \in DbIds, n \in 1..MaxFiles :
       \E parsed \in [1..n -> BOOLEAN] :
        IF db_id # "db1"
        THEN /\ k_ret' = [op |-> "add_files", db_id |-> db_id, status |-> "failed",
                          message |-> <<"Database not found">>]
             /\ UNCHANGED <<k_pc, k_chunks, k_queue>>
        ELSE IF ~check_model_compatibility(kb_embed_model)
        THEN /\ k_ret' = [op |-> "add_files", db_id |-> db_id, status |-> "failed",
                          message |-> ModelMismatchMessage(embed_model, kb_embed_model)]
             /\ UNCHANGED <<k_pc, k_chunks, k_queue>>
        ELSE /\ k_chunks' = process_files(k_calls + 1, parsed)
             /\ k_queue' = k_chunks'
             /\ k_pc' = "register"
             /\ k_ret' = NoCall
    /\ UNCHANGED <<embed_model, kb_embed_model, kb_files, kb_vectors,
                   configVars, queryVars, retrVars, chatVars, histVars, connVars>>

\* self.db_manager.add_file(..., status="processing")
KbRegisterFile ==
    /\ k_pc = "register"
    /\ k_queue # <<>>
    /\ kb_files' = Append(kb_files, [file_id |-> Head(k_queue).file_id,
                                      statuses |-> <<"processing">>])
    /\ k_pc' = "store"
    /\ UNCHANGED <<embed_model, kb_embed_model, kb_vectors, k_chunks, k_queue, k_calls, k_ret,
                   configVars, queryVars, retrVars, chatVars, histVars, connVars>>

\* self._add_documents_to_milvus(...); update_file_status(file_id, "done"),
\* or the except branch: update_file_status(file_id, "failed")
KbStoreFile ==
    /\ k_pc = "store"
    /\ LET chunk_info == Head(k_queue)
       IN  \/ /\ kb_vectors' = kb_vectors \cup
                        {[file_id |-> chunk_info.file_id, rows |-> chunk_info.nodes]}
              /\ kb_files' = update_file_status(kb_files, chunk_info.file_id, "done")
           \/ \* encode_texts or insert_vectors raises
              /\ kb_files' = update_file_status(kb_files, chunk_info.file_id, "failed")
              /\ UNCHANGED kb_vectors
    /\ k_queue' = Tail(k_queue)
    /\ k_pc' = "register"
    /\ UNCHANGED <<embed_model, kb_embed_model, k_chunks, k_calls, k_ret,
                   configVars, queryVars, retrVars, chatVars, histVars, connVars>>

\* the loop is over: add_files returns (None)
KbAddFilesReturn ==
    /\ k_pc = "register"
    /\ k_queue = <<>>
    /\ k_pc' = "idle"
    /\ k_ret' = [op |-> "add_files", db_id |-> "db1", status |-> "None", message |-> <<>>]
    /\ UNCHANGED <<embed_model, kb_embed_model, kb_files, kb_vectors, k_chunks, k_queue, k_calls,
                   configVars, queryVars, retrVars, chatVars, histVars, connVars>>

\* knowledge_base.query(query, "db1", ...): advanced_query, with no look at
\* the embed_model recorded for the database.  encode_single_text raises
\* when no embedding model is loaded; the vector store can raise.
KbQuery ==
    /\ k_pc = "idle"
    /\ IF embed_model = NotInitialized
       THEN k_ret' = [op |-> "query", status |-> "raised",
                      error |-> "Embedding model not initialized"]
       ELSE \/ k_ret' = [op |-> "query", status |-> "raised", error |-> "store"]
            \/ \E hits \in KbHits : \E res \in AdvancedQueryResults(hits, KbRequest) :
                 k_ret' = [op |-> "query", status |-> "returned",
                           results |-> res.results, all_results |-> res.all_results]
    /\ UNCHANGED <<embed_model, kb_embed_model, kb_files, kb_vectors, k_pc, k_chunks, k_queue,
                   k_calls, configVars, queryVars, retrVars, chatVars, histVars, connVars>>

\* Any embedding model loaded, or none; the database was created under any
\* of the models; reranking as configured.
InitKb ==
    /\ embed_model \in EmbedModels \cup {NotInitialized}
    /\ kb_embed_model \in EmbedModels
    /\ kb_files = <<>>
    /\ kb_vectors = {}
    /\ k_pc = "idle"
    /\ k_chunks = <<>>
    /\ k_queue = <<>>
    /\ k_calls = 0
    /\ k_ret = NoCall
    /\ enable_rerank \in BOOLEAN
    /\ reranker = enable_rerank
    /\ ConfigDefault
    /\ QueryIdle
    /\ RetrIdle
    /\ ChatIdle
    /\ HistIdle
    /\ ConnIdle

NextKb ==
    \/ KbAddFiles
    \/ KbRegisterFile
    \/ KbStoreFile
    \/ KbAddFilesReturn
    \/ KbQuery

SpecKb == InitKb /\ [][NextKb]_vars

(***************************************************************************)
(* HistoryManager on its own: any sequence of calls on one object.         *)
(***************************************************************************)
Contents == {"c1", "c2"}

\* HistoryManager(history): without a history, or with the messages an
\* earlier manager held.
HNew ==
    /\ Len(h_messages) < MaxMessages
    /\ \E hist \in {<<>>, h_messages} :
        /\ h_messages' = HistoryManager(hist, SystemPrompt)
        /\ h_prev' = hist
    /\ h_op' = [name |-> "__init__"]
    /\ h_base' = <<>>
    /\ h_out' = <<>>
    /\ UNCHANGED <<configVars, queryVars, retrVars, chatVars, kbVars, connVars>>

HAddUser ==
    /\ h_messages # <<>>
    /\ Len(h_messages) < MaxMessages
    /\ h_messages' = add(h_messages, "user", "q")
    /\ h_op' = [name |-> "add_user"]
    /\ h_prev' = h_messages
    /\ h_base' = <<>>
    /\ h_out' = <<>>
    /\ UNCHANGED <<configVars, queryVars, retrVars, chatVars, kbVars, connVars>>

HAddAi ==
    /\ h_messages # <<>>
    /\ Len(h_messages) < MaxMessages
    /\ \E c \in Contents :
        /\ h_messages' = add(h_messages, "assistant", c)
        /\ h_op' = [name |-> "add_ai", content |-> c]
    /\ h_prev' = h_messages
    /\ h_base' = <<>>
    /\ h_out' = <<>>
    /\ UNCHANGED <<configVars, queryVars, retrVars, chatVars, kbVars, connVars>>

HUpdateAi ==
    /\ h_messages # <<>>
    /\ Len(h_messages) < MaxMessages
    /\ \E c \in Contents :
        /\ h_messages' = update_ai(h_messages, c)
        /\ h_op' = [name |-> "update_ai", content |-> c]
    /\ h_prev' = h_messages
    /\ h_base' = IF h_op.name = "update_ai" THEN h_base ELSE h_messages
    /\ h_out' = <<>>
    /\ UNCHANGED <<configVars, queryVars, retrVars, chatVars, kbVars, connVars>>

HGetHistoryWithMsg ==
    /\ h_messages # <<>>
    /\ \E n \in {None} \cup (0..MaxRounds) :
        /\ h_out' = get_history_with_msg(h_messages, "new", "user", n)
        /\ h_op' = [name |-> "get_history_with_msg", max_rounds |-> n]
    /\ h_prev' = h_messages
    /\ h_base' = <<>>
    /\ UNCHANGED <<h_messages, configVars, queryVars, retrVars, chatVars, kbVars, connVars>>

InitHistory ==
    /\ enable_rerank = FALSE
    /\ reranker = FALSE
    /\ ConfigDefault
    /\ QueryIdle
    /\ RetrIdle
    /\ ChatIdle
    /\ KbIdle
    /\ HistIdle
    /\ ConnIdle

NextHistory ==
    \/ HNew
    \/ HAddUser
    \/ HAddAi
    \/ HUpdateAi
    \/ HGetHistoryWithMsg

SpecHistory == InitHistory /\ [][NextHistory]_vars

(***************************************************************************)
(* Neo4jConnectionManager (graph_database/managers/connection_manager.py). *)
(* The manager is the record m of its fields; GraphDatabase.driver(...)    *)
(* returns a driver or raises, driver.session() returns a session or       *)
(* raises, and driver.close() returns.                                     *)
(***************************************************************************)
DbNames == {NEO4J_DB_NAME, "db_a", "db_b"}

Manager == [driver |-> conn_driver, status |-> conn_status, db_name |-> conn_db_name]

\* return self._status == "open" and self._driver is not None
is_connected(m) == m.status = "open" /\ m.driver # NoDriver

\* Mutant: a failed connect leaves the status "open".
ConnectFailsOpen(m, driver_ok) ==
    IF m.driver # NoDriver
    THEN [m |-> m, raised |-> FALSE]
    ELSE IF driver_ok
         THEN [m |-> [m EXCEPT !.driver = m.db_name, !.status = "open"], raised |-> FALSE]
         ELSE [m |-> [m EXCEPT !.status = "open"], raised |-> TRUE]

\* connect(): nothing when a driver is held; else the driver for
\* NEO4J_URI/db_name and status "open", or status "closed" and
\* Neo4jConnectionError when GraphDatabase.driver raises.
connect(m, driver_ok) ==
    IF m.driver # NoDriver
    THEN [m |-> m, raised |-> FALSE]
    ELSE IF driver_ok
         THEN [m |-> [m EXCEPT !.driver = m.db_name, !.status = "open"], raised |-> FALSE]
         ELSE [m |-> [m EXCEPT !.status = "closed"], raised |-> TRUE]

\* Mutant: the driver is dropped and the status stays as it was.
DisconnectKeepsStatus(m) ==
    IF m.driver # NoDriver THEN [m EXCEPT !.driver = NoDriver] ELSE m

\* disconnect(): close and drop the driver, status "closed"
disconnect(m) ==
    IF m.driver # NoDriver
    THEN [m EXCEPT !.driver = NoDriver, !.status = "closed"]
    ELSE m

\* Mutant: the database name is not recorded.
UseDatabaseKeepsName(m, db_name, driver_ok) ==
    IF db_name # m.db_name
    THEN connect(disconnect(m), driver_ok)
    ELSE IF ~is_connected(m)
         THEN connect(m, driver_ok)
         ELSE [m |-> m, raised |-> FALSE]

\* use_database(db_name)
use_database(m, db_name, driver_ok) ==
    IF db_name # m.db_name
    THEN connect(disconnect([m EXCEPT !.db_name = db_name]), driver_ok)
    ELSE IF ~is_connected(m)
         THEN connect(m, driver_ok)
         ELSE [m |-> m, raised |-> FALSE]

\* get_session(): connect when not connected, then self._driver.session()
get_session(m, driver_ok, session_ok) ==
    LET c == IF ~is_connected(m) THEN connect(m, driver_ok)
                                 ELSE [m |-> m, raised |-> FALSE]
    IN  IF c.raised
        THEN c
        ELSE [m |-> c.m, raised |-> c.m.driver = NoDriver \/ ~session_ok]

\* The manager's fields after a call, and how the call ended.
Called(op, arg, r) ==
    /\ conn_driver' = r.m.driver
    /\ conn_status' = r.m.status
    /\ conn_db_name' = r.m.db_name
    /\ conn_last' = [op |-> op, arg |-> arg, raised |-> r.raised]
    /\ conn_calls' = conn_calls + 1
    /\ UNCHANGED <<configVars, queryVars, retrVars, chatVars, kbVars, histVars>>

ConnConnect ==
    /\ conn_calls < MaxConnCalls
    /\ \E driver_ok \in BOOLEAN : Called("connect", "", connect(Manager, driver_ok))

ConnDisconnect ==
    /\ conn_calls < MaxConnCalls
    /\ Called("disconnect", "", [m |-> disconnect(Manager), raised |-> FALSE])

ConnGetSession ==
    /\ conn_calls < MaxConnCalls
    /\ \E driver_ok \in BOOLEAN, session_ok \in BOOLEAN :
        Called("get_session", "", get_session(Manager, driver_ok, session_ok))

ConnUseDatabase ==
    /\ conn_calls < MaxConnCalls
    /\ \E db_name \in DbNames, driver_ok \in BOOLEAN :
        Called("use_database", db_name, use_database(Manager, db_name, driver_ok))

InitConn ==
    /\ enable_rerank = FALSE
    /\ reranker = FALSE
    /\ ConfigDefault
    /\ QueryIdle
    /\ RetrIdle
    /\ ChatIdle
    /\ KbIdle
    /\ HistIdle
    /\ ConnIdle

NextConn ==
    \/ ConnConnect
    \/ ConnDisconnect
    \/ ConnGetSession
    \/ ConnUseDatabase

SpecConn == InitConn /\ [][NextConn]_vars

(***************************************************************************)
(* Properties.                                                             *)
(***************************************************************************)
Range(s) == {s[i] : i \in 1..Len(s)}

\* The item carries a rerank_score.
Scored(item) == "rerank_score" \in DOMAIN item /\ item.rerank_score # None

SortedByRerank(s) ==
    \A j, k \in 1..Len(s) : j < k => s[j].rerank_score >= s[k].rerank_score

\* The request enables no source.
NoSource == ~meta.db_id /\ ~meta.use_graph /\ ~meta.use_web

\* The rewrite mode in force for the request, spelled out.
ModeIs(mode) ==
    \/ meta.mode = "search" /\ meta.use_rewrite_query = mode
    \/ meta.mode # "search" /\ query_mode = mode

PastKb == pc \in {"query_graph", "query_web", "construct_query", "returned"}

\* C1: when the backend of a source adapter (the knowledge-base query, the
\* graph query) raises, retrieval still returns normally: no such exception
\* leaves Retriever.retrieval.
C1_AdapterFailureIsolated ==
    pc = "raised" => raised \notin {"kb_query", "graph_query"}

\* C2: right after distance filtering, filtered_results holds exactly the
\* hits of all_results whose distance is strictly greater than
\* distance_threshold, in their original order; a hit on the threshold is
\* dropped, and threshold 0.5 with distances 0.9, 0.4, 0.6 keeps 0.9, 0.6.
C2_DistanceFilter ==
    q_pc = "filtered" =>
        /\ \A i \in 1..Len(all_results) :
              (all_results[i].distance > q_req.distance_threshold)
                <=> (\E j \in 1..Len(filtered_results) :
                        filtered_results[j] = all_results[i])
        /\ \A j \in 1..Len(filtered_results) :
              \E i \in 1..Len(all_results) : all_results[i] = filtered_results[j]
        /\ \A j, k \in 1..Len(filtered_results) :
              j < k => filtered_results[j].id < filtered_results[k].id
        /\ (/\ q_req.distance_threshold = 5
            /\ [i \in 1..Len(all_results) |-> all_results[i].distance] = <<9, 4, 6>>)
              => [j \in 1..Len(filtered_results) |-> filtered_results[j].distance] = <<9, 6>>

\* Three hits, one of them on the threshold: it is dropped, the others stay.
C2_Witness ==
    /\ q_pc = "filtered"
    /\ Len(all_results) = 3
    /\ all_results[2].distance = q_req.distance_threshold
    /\ [j \in 1..Len(filtered_results) |-> filtered_results[j].id] = <<1, 3>>

\* C3, as stated: whenever the enable_rerank flag is set, the returned
\* results are ordered by rerank_score non-increasing and every returned item
\* has a rerank_score strictly greater than rerank_threshold.
C3_Original ==
    (q_pc = "done" /\ enable_rerank) =>
        /\ SortedByRerank(filtered_results)
        /\ \A j \in 1..Len(filtered_results) :
              /\ Scored(filtered_results[j])
              /\ filtered_results[j].rerank_score > q_req.rerank_threshold

\* C3, amended: when the enable_rerank flag is set and a reranker is loaded,
\* the returned results are ordered by rerank_score non-increasing and every
\* returned item has a rerank_score strictly greater than rerank_threshold.
C3_RerankOrder ==
    (q_pc = "done" /\ enable_rerank /\ reranker) =>
        /\ SortedByRerank(filtered_results)
        /\ \A j \in 1..Len(filtered_results) :
              /\ Scored(filtered_results[j])
              /\ filtered_results[j].rerank_score > q_req.rerank_threshold

\* The rerank stage reordered two hits and dropped a third on the threshold.
C3_Witness ==
    /\ q_pc = "done"
    /\ enable_rerank /\ reranker
    /\ Len(filtered_results) >= 2
    /\ filtered_results[1].id > filtered_results[2].id
    /\ filtered_results[1].rerank_score > filtered_results[2].rerank_score
    /\ \E i \in 1..Len(all_results) :
          /\ Scored(all_results[i])
          /\ all_results[i].rerank_score = q_req.rerank_threshold

C5_NoSourceNoEvidence ==
    (pc = "returned" /\ NoSource) =>
        /\ refs.knowledge_base.results = <<>>
        /\ refs.graph_base.nodes = <<>>
        /\ refs.graph_base.edges = <<>>
        /\ refs.web_search.results = <<>>
        /\ out_query = [template |-> FALSE, query |-> UserQuery, external |-> <<>>]

\* C6: construct_query uses the QA template exactly when the knowledge-base
\* results, the graph edges or the web results have content; when all three
\* are empty it returns the original query unchanged.
C6_TemplateOnlyWithEvidence ==
    pc = "returned" =>
        LET evidence == \/ refs.knowledge_base.results # <<>>
                        \/ refs.graph_base.edges # <<>>
                        \/ refs.web_search.results # <<>>
        IN  /\ out_query.template <=> evidence
            /\ out_query.template => out_query.external # <<>>
            /\ ~evidence =>
                 out_query = [template |-> FALSE, query |-> UserQuery, external |-> <<>>]

\* All three sources were queried and none has content: the vector search
\* found hits that the filters dropped, the graph store and the web search
\* answered with nothing.
C6_Witness ==
    /\ pc = "returned"
    /\ refs.knowledge_base.all_results # <<>>
    /\ refs.knowledge_base.results = <<>>
    /\ meta.use_graph /\ enable_kb /\ LookedUp(refs.entities) # <<>>
    /\ refs.graph_base.edges = <<>>
    /\ web_calls = 1
    /\ refs.web_search.results = <<>>
    /\ out_query = [template |-> FALSE, query |-> UserQuery, external |-> <<>>]

\* C7: a rewrite generation call that raises does not abort the retrieval.
C7_RewriteFailureNotFatal ==
    pc = "raised" => raised # "rewrite_generation"

\* C8: with rewrite mode off no rewrite or hypothetical-passage generation
\* call is made, and the query handed to the knowledge-base search is the
\* input query, for any history.
C8_OffMakesNoCall ==
    ModeIs("off") =>
        /\ \A i \in 1..Len(gen_calls) : gen_calls[i].kind \notin {"rewrite", "hyde"}
        /\ PastKb => refs.knowledge_base.rw_query = UserQuery

\* A search request switches rewriting off while the global mode is hyde;
\* the knowledge base was searched, with a history at hand.
C8_Witness ==
    /\ pc = "returned"
    /\ meta.db_id /\ enable_kb
    /\ meta.mode = "search" /\ meta.use_rewrite_query = "off"
    /\ query_mode = "hyde"
    /\ history # <<>>
    /\ refs.knowledge_base.all_results # <<>>
    /\ refs.knowledge_base.rw_query = UserQuery

\* C9: in hyde mode, once the rewrite generation call has returned, the
\* hypothetical-passage generation call is made and its passage is the query
\* of the knowledge-base search.
C9_HydePassage ==
    (/\ ModeIs("hyde")
     /\ meta.db_id /\ enable_kb
     /\ PastKb \/ pc = "raised"
     /\ raised \notin {"ner_generation", "rewrite_generation"}) =>
        /\ \E i, j \in 1..Len(gen_calls) :
              i < j /\ gen_calls[i].kind = "rewrite" /\ gen_calls[j].kind = "hyde"
        /\ raised # "hyde_call"
        /\ PastKb => refs.knowledge_base.rw_query = Passage

C12_WebOnlyIfUseWeb ==
    web_calls > 0 => meta.use_web

\* C13: when use_graph is set and the query was rewritten, the entity
\* extraction call comes after the rewrite call and its input is the
\* rewritten query, not the raw query.
C13_EntitiesFromRewrittenQuery ==
    (/\ pc = "returned"
     /\ meta.use_graph
     /\ refs.knowledge_base.rw_query = RewrittenQuery) =>
        \E i, j \in 1..Len(gen_calls) :
            /\ j < i
            /\ gen_calls[j].kind = "rewrite"
            /\ gen_calls[i].kind = "ner"
            /\ gen_calls[i].text = RewrittenQuery

\* C14: a generation call that raises during entity extraction does not
\* abort the retrieval.
C14_NerFailureNotFatal ==
    pc = "raised" => raised # "ner_generation"

Whitespace == {" "}

\* The string without its leading and trailing blanks.
Trimmed(e) ==
    LET inner == {i \in 1..Len(e) : e[i] \notin Whitespace}
    IN  IF inner = {} THEN <<>>
        ELSE SubSeq(e, CHOOSE i \in inner : \A j \in inner : i <= j,
                       CHOOSE i \in inner : \A j \in inner : j <= i)

\* C15: every entry of the entity list is a segment of the response between
\* "<->" delimiters, trimmed of surrounding whitespace, and none is empty or
\* whitespace-only; no empty or whitespace-only entity is used for a graph
\* lookup.
C15_EntitiesTrimmedNonEmpty ==
    /\ \A i \in 1..Len(refs.entities) :
          /\ refs.entities[i] = Trimmed(refs.entities[i])
          /\ refs.entities[i] # <<>>
    /\ \A i \in 1..Len(source_calls) :
          source_calls[i].op = "graph_lookup" => Trimmed(source_calls[i].entity) # <<>>

IsPrefix(s, t) == Len(s) <= Len(t) /\ s = SubSeq(t, 1, Len(s))

\* C16: the top_k step of advanced_query never increases the result count
\* and keeps the relative order: for any top_k the truncated list is a prefix
\* of the list before truncation.
C16_TopKPrefix ==
    [][(q_pc = "ranked" /\ q_pc' = "done") =>
            IsPrefix(filtered_results', filtered_results)]_vars

\* top_k 2 cut a list of three hits that all passed the distance filter.
C16_Witness ==
    /\ q_pc = "done"
    /\ ~enable_rerank
    /\ q_req.top_k = 2
    /\ Len(FilterByDistance(all_results, q_req.distance_threshold)) = 3
    /\ [j \in 1..Len(filtered_results) |-> filtered_results[j].id] = <<1, 2>>

\* C17: for every integer top_k >= 0 passed to advanced_query the returned
\* results are the first top_k items of the filtered and ranked list, so
\* they are at most top_k.
C17_AtMostTopK ==
    (q_pc = "done" /\ q_req.top_k # None) =>
        LET pre == FilterByDistance(all_results, q_req.distance_threshold)
        IN  /\ Len(filtered_results) <= q_req.top_k
            /\ ~RerankApplies(pre) =>
                  filtered_results = SubSeq(pre, 1, Min(q_req.top_k, Len(pre)))

Ops(log) == [i \in 1..Len(log) |-> log[i].op]

\* Where an entry of source_calls stands in the order of retrieval.
StageOf(op) ==
    CASE op = "kb_search" -> 1
      [] op = "kb_filter" -> 2
      [] op = "kb_rerank" -> 3
      [] op = "graph_lookup" -> 4
      [] op = "web_search" -> 5

C19_FlagsStableInRetrieval ==
    \A i, j \in 1..Len(flag_reads) :
        flag_reads[i].flag = flag_reads[j].flag
            => flag_reads[i].value = flag_reads[j].value

\* C20: the hyde branch of rewrite_query (the call of HyDEOperator.execute)
\* is taken only for a request whose own options select hyde; a request that
\* selects no rewrite mode never takes it, whatever the global query_mode.
C20_HydeOnlyOnRequest ==
    raised = "hyde_call" =>
        (meta.mode = "search" /\ meta.use_rewrite_query = "hyde")

\* C21: a knowledge-base query on a database whose recorded embed_model
\* differs from the current embedding model is not executed: the call ends
\* in a failure, never with search results.
C21_MismatchedQueryRejected ==
    (k_ret.op = "query" /\ kb_embed_model # embed_model) => k_ret.status = "raised"

\* C22: add_files on a database whose embed_model is incompatible with the
\* current embedding model returns status "failed" with a "Model mismatch"
\* message and changes nothing: no file is processed, no file record is
\* added, no vectors are inserted.
C22_MismatchAddsNothing ==
    kb_embed_model # embed_model =>
        /\ kb_files = <<>>
        /\ kb_vectors = {}
        /\ k_queue = <<>>
        /\ k_pc = "idle"
        /\ (k_ret.op = "add_files" /\ k_ret.db_id = "db1") =>
              /\ k_ret.status = "failed"
              /\ k_ret.message[1] = "Model mismatch: current="

\* add_files returned on a database recorded under another model than the
\* loaded one.
C22_Witness ==
    /\ k_ret.op = "add_files"
    /\ k_ret.db_id = "db1"
    /\ embed_model = "model_a"
    /\ kb_embed_model = "model_b"
    /\ k_ret.message = ModelMismatchMessage("model_a", "model_b")

\* C23: the rerank stage of advanced_query calls the reranker at most once
\* per query, with one batch holding every candidate that passed distance
\* filtering; it makes no call when reranking is disabled, when no reranker
\* is loaded or when no candidate passed, and then no returned item carries
\* a rerank_score.
C23_OneRerankBatch ==
    q_pc \in {"ranked", "done"} =>
        LET passed == FilterByDistance(all_results, q_req.distance_threshold)
        IN  IF enable_rerank /\ reranker /\ passed # <<>>
            THEN rerank_calls = <<[i \in 1..Len(passed) |-> passed[i].id]>>
            ELSE /\ rerank_calls = <<>>
                 /\ \A item \in Range(filtered_results) : ~Scored(item)

\* Three hits, the second dropped by the distance filter: one call with the
\* batch of the other two.
C23_Witness ==
    /\ q_pc = "done"
    /\ Len(all_results) = 3
    /\ rerank_calls = << <<1, 3>> >>

\* C24: in the value advanced_query returns, an item carries a rerank_score
\* only if the rerank stage ran for the query and the item passed distance
\* filtering; an item dropped by distance filtering carries none, neither in
\* results nor in all_results.
C24_ScoreOnlyForSurvivors ==
    \A item \in Range(filtered_results) \cup Range(all_results) :
        /\ Scored(item) =>
              /\ rerank_calls # <<>>
              /\ item.distance > q_req.distance_threshold
        /\ item.distance <= q_req.distance_threshold => ~Scored(item)

\* The query returned: all_results holds a hit the distance filter dropped,
\* without a score, and a scored hit that the rerank threshold dropped from
\* results.
C24_Witness ==
    /\ q_pc = "done"
    /\ \E item \in Range(all_results) :
          item.distance <= q_req.distance_threshold /\ ~Scored(item)
    /\ \E item \in Range(all_results) :
          Scored(item) /\ item \notin Range(filtered_results)
    /\ filtered_results # <<>>

Ids(items) == [i \in 1..Len(items) |-> items[i].id]

NoRepeat(s) == \A i, j \in 1..Len(s) : s[i] = s[j] => i = j

\* C25: the graph results merged over all entities of one request hold no
\* duplicates: every node id and every edge id appears at most once in the
\* output of format_query_results, also when the same triple is returned
\* for several entities.
C25_GraphResultsDeduplicated ==
    /\ NoRepeat(Ids(refs.graph_base.nodes))
    /\ NoRepeat(Ids(refs.graph_base.edges))

\* Two entities were looked up and the store answered both with the same
\* two triples: three nodes and two edges are left.
C25_Witness ==
    /\ pc = "returned"
    /\ Len(SelectSeq(source_calls, LAMBDA c : c.op = "graph_lookup")) = 2
    /\ Ids(refs.graph_base.nodes) = <<"n1", "n2", "n3">>
    /\ Ids(refs.graph_base.edges) = <<"r1", "r2">>

Last(s) == s[Len(s)]

\* C26: after update_ai(c) the last message is an assistant message with
\* content c; the history grew by one message if the last message before
\* the call was not an assistant message and kept its length otherwise, the
\* messages before the last one being untouched; so after any number of
\* update_ai calls in a row the history is the one before the first of
\* them with a single trailing assistant message, holding the latest
\* content, put in the place of its trailing assistant message or behind
\* its last message.
C26_UpdateAi ==
    h_op.name = "update_ai" =>
        /\ Last(h_messages) = Msg("assistant", h_op.content)
        /\ Len(h_messages) =
              IF Last(h_prev).role = "assistant" THEN Len(h_prev) ELSE Len(h_prev) + 1
        /\ SubSeq(h_messages, 1, Len(h_messages) - 1) =
              SubSeq(h_prev, 1, Len(h_messages) - 1)
        /\ h_messages =
              (IF Last(h_base).role = "assistant"
               THEN SubSeq(h_base, 1, Len(h_base) - 1) ELSE h_base)
              \o <<Msg("assistant", h_op.content)>>

\* Two update_ai calls in a row behind a user message: the first appended
\* "c1", the second put "c2" in its place.
C26_Witness ==
    /\ h_op = [name |-> "update_ai", content |-> "c2"]
    /\ Last(h_base).role = "user"
    /\ Last(h_prev) = Msg("assistant", "c1")
    /\ Len(h_messages) = Len(h_base) + 1

\* C27: get_history_with_msg(msg, max_rounds=n) returns at most the last 2*n
\* stored messages followed by the new message, so at most 2*n + 1
\* messages, for every n >= 0; without max_rounds it returns all stored
\* messages followed by the new message.
C27_AtMostTwoNPlusOne ==
    h_op.name = "get_history_with_msg" =>
        /\ Last(h_out) = Msg("user", "new")
        /\ IF h_op.max_rounds = None
           THEN h_out = Append(h_messages, Msg("user", "new"))
           ELSE Len(h_out) <= 2 * h_op.max_rounds + 1

\* The statuses written for one file so far are "processing" alone, or
\* "processing" followed by one of "done" and "failed".
C28_Lifecycle(file) ==
    /\ file.statuses[1] = "processing"
    /\ Len(file.statuses) <= 2
    /\ Len(file.statuses) = 2 => file.statuses[2] \in {"done", "failed"}

C28_Done(file) == file.statuses = <<"processing", "done">>

C28_Settled(file) == Len(file.statuses) = 2

C28_StatusInv ==
    /\ \A i \in 1..Len(kb_files) :
        /\ C28_Lifecycle(kb_files[i])
        /\ C28_Done(kb_files[i]) =>
               \E v \in kb_vectors : v.file_id = kb_files[i].file_id
        /\ ~C28_Settled(kb_files[i]) =>
               k_pc = "store" /\ Head(k_queue).file_id = kb_files[i].file_id
    /\ (k_pc = "idle" /\ k_ret.op = "add_files" /\ k_ret.status = "None") =>
        \A j \in 1..Len(k_chunks) :
            /\ k_chunks[j].file_id \in Registered
            /\ C28_Settled(FileRecord(k_chunks[j].file_id))

C28_StatusStep ==
    /\ Len(kb_files) <= Len(kb_files')
    /\ \A i \in 1..Len(kb_files) :
        /\ kb_files'[i].file_id = kb_files[i].file_id
        /\ IsPrefix(kb_files[i].statuses, kb_files'[i].statuses)
        /\ Len(kb_files'[i].statuses) <= Len(kb_files[i].statuses) + 1

C29_StatusMatchesDriver ==
    /\ conn_status \in {"open", "closed"}
    /\ conn_status = "open" <=> conn_driver # NoDriver
    /\ (conn_last.op \in {"connect", "use_database"} /\ ~conn_last.raised) =>
           is_connected(Manager)
    /\ conn_last.op = "disconnect" => ~is_connected(Manager)
    /\ (conn_last.op = "use_database" /\ ~conn_last.raised) =>
           is_connected(Manager) /\ conn_db_name = conn_last.arg

\* use_database switched to another database and returned, after a call
\* that had failed.
C29_Witness ==
    /\ conn_last.op = "use_database"
    /\ ~conn_last.raised
    /\ conn_last.arg = "db_b"
    /\ conn_db_name = "db_b"
    /\ conn_driver = "db_b"
    /\ conn_status = "open"
    /\ conn_calls >= 2

SystemMessages(messages) ==
    SelectSeq(messages, LAMBDA msg : msg.role = "system")

\* C30: while a chat request is served, in a conversation where every
\* request carries the history of the last finished chunk, the messages the
\* HistoryManager holds have exactly one system message, and it is the first
\* message.
C30_OneSystemMessageFirst ==
    (c_requests >= 1 /\ c_pc # "idle") =>
        /\ Len(SystemMessages(h_messages)) = 1
        /\ h_messages[1].role = "system"

====
